---------------------------- MODULE Spec2Model ----------------------------
(***************************************************************************)
(* RF planning engine (services/rfEngine.ts): link budget, best-server    *)
(* sampler, serving-cell selector and greedy site-placement search.        *)
(*                                                                         *)
(* Numbers.  The engine computes in IEEE doubles; the model computes the   *)
(* same formulas in fixed point over 32-bit integers:                      *)
(*   - coordinates are offsets from (BaseLat, BaseLng) = (40.7128,-74.0060)*)
(*     in units of 1e-4 degree ("U"); path samples use fifths of a unit;   *)
(*   - signal levels, losses and gains are in centi-dB (-150 dBm = -15000);*)
(*   - angles are in centi-degrees, arguments of the synthetic sin/cos     *)
(*     fields in tenths of a milliradian (2*pi = 62832);                   *)
(*   - heights are in cm, distances in metres.                             *)
(* sin, log10 and atan are evaluated by the approximations below (errors   *)
(* about 2e-3, 2e-3 and 0.03 degree).                                      *)
(***************************************************************************)
EXTENDS Integers, Sequences, FiniteSets, TLC

-----------------------------------------------------------------------------
(* Fixed-point arithmetic *)

Abs(x) == IF x < 0 THEN -x ELSE x

Min2(a, b) == IF a < b THEN a ELSE b

Max2(a, b) == IF a > b THEN a ELSE b

\* JavaScript % : the result has the sign of the dividend
JsMod(a, n) == IF a >= 0 THEN a % n ELSE -((-a) % n)

TwoPi == 62832

HalfPi == 15708

\* 1000*sin(x), x in tenths of a milliradian (Bhaskara's rational approximation)
RECURSIVE SinM(_)
SinM(x) ==
  LET r == x % TwoPi
  IN IF r > 31416 THEN -SinM(r - 31416)
     ELSE LET y == (r * (31416 - r)) \div 10000
          IN (16000 * y) \div (493480 - 4 * y)

CosM(x) == SinM(x + HalfPi)

\* floor(sqrt(n)) for 0 <= n < 2^31, one result bit per step
RECURSIVE SqrtBits(_, _, _)
SqrtBits(n, r, b) ==
  IF b = 0 THEN r
  ELSE IF r + b <= 46340 /\ (r + b) * (r + b) <= n
       THEN SqrtBits(n, r + b, b \div 2)
       ELSE SqrtBits(n, r, b \div 2)

ISqrt(n) == SqrtBits(n, 0, 32768)

\* 1000*log10(1 + j/10) for j = 0..90
LogTable ==
  << 0, 41, 79, 114, 146, 176, 204, 230, 255, 279, 301, 322, 342, 362, 380,
     398, 415, 431, 447, 462, 477, 491, 505, 519, 531, 544, 556, 568, 580,
     591, 602, 613, 623, 633, 643, 653, 663, 672, 681, 690, 699, 708, 716,
     724, 732, 740, 748, 756, 763, 771, 778, 785, 792, 799, 806, 813, 820,
     826, 833, 839, 845, 851, 857, 863, 869, 875, 881, 886, 892, 898, 903,
     908, 914, 919, 924, 929, 934, 940, 944, 949, 954, 959, 964, 968, 973,
     978, 982, 987, 991, 996, 1000 >>

\* 1000*log10(n * 10^e) for n >= 1: normalise n to four digits, then interpolate
RECURSIVE LogNorm(_, _)
LogNorm(n, e) ==
  IF n >= 10000 THEN LogNorm(n \div 10, e + 1)
  ELSE IF n < 1000 THEN LogNorm(n * 10, e - 1)
  ELSE LET j == (n - 1000) \div 100
           r == (n - 1000) % 100
       IN (e + 3) * 1000 + LogTable[j + 1]
            + ((LogTable[j + 2] - LogTable[j + 1]) * r) \div 100

Log10M(n) == LogNorm(n, 0)

\* 100*atan(j/64) in degrees for j = 0..64
AtanTable ==
  << 0, 90, 179, 268, 358, 447, 536, 624, 713, 800, 888, 975, 1062, 1148,
     1234, 1319, 1404, 1488, 1571, 1653, 1735, 1817, 1897, 1977, 2056, 2134,
     2211, 2287, 2363, 2438, 2511, 2584, 2657, 2728, 2798, 2867, 2936, 3003,
     3070, 3136, 3201, 3264, 3327, 3390, 3451, 3511, 3571, 3629, 3687, 3744,
     3800, 3855, 3909, 3963, 4016, 4067, 4119, 4169, 4218, 4267, 4315, 4363,
     4409, 4455, 4500 >>

\* 100*atan(num/den) in degrees for 0 <= num <= den, den > 0
AtanUnit(num, den) ==
  LET q == (num * 6400) \div den
      j == q \div 100
      r == q % 100
  IN IF j >= 64 THEN AtanTable[65]
     ELSE AtanTable[j + 1] + ((AtanTable[j + 2] - AtanTable[j + 1]) * r) \div 100

\* Math.atan2(y, x) * 180 / Math.PI in centi-degrees, in (-18000, 18000]
Atan2CD(y, x) ==
  IF x = 0 /\ y = 0 THEN 0
  ELSE LET ay == Abs(y)
           ax == Abs(x)
           a0 == IF ay <= ax THEN AtanUnit(ay, ax) ELSE 9000 - AtanUnit(ax, ay)
           a1 == IF x < 0 THEN 18000 - a0 ELSE a0
       IN IF y < 0 THEN -a1 ELSE a1

-----------------------------------------------------------------------------
(* Catalog and synthetic fields *)

\* entries of ANTENNA_LIBRARY used by the model: gain in centi-dB, beamwidths
\* in tenths of a degree
ANTENNA_LIBRARY ==
  << [id |-> "h-amb4519", gainDbi |-> 1850, horizontalBeamwidth |-> 650,
      verticalBeamwidth |-> 65],
     [id |-> "jma-small", gainDbi |-> 1000, horizontalBeamwidth |-> 3600,
      verticalBeamwidth |-> 120] >>

NoAntenna == [id |-> "undefined"]

\* ANTENNA_LIBRARY.find(a => a.id === antennaId)
FindAntenna(antennaId) ==
  IF \E k \in 1..Len(ANTENNA_LIBRARY) : ANTENNA_LIBRARY[k].id = antennaId
  THEN ANTENNA_LIBRARY[CHOOSE k \in 1..Len(ANTENNA_LIBRARY) :
                         /\ ANTENNA_LIBRARY[k].id = antennaId
                         /\ \A m \in 1..(k - 1) : ANTENNA_LIBRARY[m].id # antennaId]
  ELSE NoAntenna

\* phases (tenths of a milliradian, mod 2*pi) of k*BaseLat and k*BaseLng for
\* the multipliers k that the synthetic fields apply to the coordinates
Phase800Lat == 44906

Phase800Lng == 16551

Phase5000Lat == 13624

Phase3000Lng == 46360

Phase7241Lat == 6134

Phase7122Lng == 5507

Phase1500Lat == 29220

Phase1500Lng == 23180

Phase400Lat == 53869

Phase400Lng == 39692

\* getQuickDistSq, in U^2 (0.015 deg^2 = 1500000 U^2)
getQuickDistSq(lat1, lng1, lat2, lng2) ==
  (lat1 - lat2) * (lat1 - lat2) + (lng1 - lng2) * (lng1 - lng2)

\* getSyntheticElevation in cm; the arguments are in fifths of a unit
getSyntheticElevation(latF, lngF) ==
  (45 * SinM(Phase800Lat + 160 * latF) + 45 * CosM(Phase800Lng + 160 * lngF)
     + 12 * SinM(Phase5000Lat + Phase3000Lng + 1000 * latF + 600 * lngF)) \div 10

\* getUrbanClutterLoss in centi-dB
getUrbanClutterLoss(lat, lng) ==
  LET bx == Abs(SinM(Phase7241Lat + 7241 * lat))
      by == Abs(SinM(Phase7122Lng + 7122 * lng))
  IN IF bx < 300 /\ by < 300 THEN 3000
     ELSE IF bx < 700 /\ by < 700 THEN 1500
     ELSE 0

\* getSyntheticHumanTraffic in hundredths (0..10000)
getSyntheticHumanTraffic(lat, lng) ==
  LET a == Abs(SinM(Phase1500Lat + 1500 * lat) * CosM(Phase1500Lng + 1500 * lng))
      b == Abs(SinM(Phase400Lat + 400 * lat) * CosM(Phase400Lng + 400 * lng))
  IN Min2(10000, (a * 60 + b * 40) \div 10000)

\* calculateDiffractionLoss in centi-dB; v in thousandths
calculateDiffractionLoss(v) ==
  IF v <= -780 THEN 0
  ELSE LET w == v - 100
           arg == IF w > 20000 THEN 2 * w ELSE ISqrt(w * w + 1000000) + w
       IN 690 + 2 * (Log10M(arg) - 3000)

\* calculateHata in centi-dB for hm = 1.5; distance in metres
calculateHata(distM, freqMhz, hb) ==
  IF distM < 10
  THEN LET logD == IF distM = 0 THEN -2000 ELSE Log10M(distM) - 3000
       IN 3244 + 2 * logD + 2 * Log10M(freqMhz)
  ELSE LET logF == Log10M(freqMhz)
           logHb == Log10M(hb)
           aHm == (((11 * logF) \div 10 - 700) * 15) \div 10
                    - ((156 * logF) \div 100 - 800)
       IN 6955 + (2616 * logF) \div 1000 - (1382 * logHb) \div 1000 - aHm \div 10
            + ((44900 - (655 * logHb) \div 100) * (Log10M(distM) - 3000)) \div 10000

-----------------------------------------------------------------------------
(* Great-circle geometry around the base point *)

\* 1e6 * cos(BaseLat)
CosBaseMicro == 757989

\* 1e9 * sin(BaseLat) * (pi/180 * 1e-4) / 2
SinSlope == 569

\* metres north for a latitude difference of dLat units (R = 6371 km)
NorthM(dLat) ==
  IF dLat >= 0 THEN (dLat * 111195 + 5000) \div 10000
  ELSE -((-dLat * 111195 + 5000) \div 10000)

\* metres east for a longitude difference of dLng units at mean latitude latSum/2
EastM(dLng, latSum) ==
  LET cosMicro == CosBaseMicro - (SinSlope * latSum) \div 1000
      k == (111195 * (cosMicro \div 100)) \div 10000
      a == (Abs(dLng) * k + 5000) \div 10000
  IN IF dLng >= 0 THEN a ELSE -a

\* loss of a pattern at off-axis angle diff (centi-degrees) for a half-power
\* beamwidth bw (tenths of a degree): min(cap, 12 * (diff / (bw/2))^2)
PatternLoss(diff, bw, cap, capRatio) ==
  LET r == (diff * 200) \div bw
  IN IF r >= capRatio THEN cap ELSE Min2(cap, (12 * r * r) \div 10000)

\* sector.heightM || site.towerHeightM
SectorHeight(site, sector) ==
  IF sector.heightM # 0 THEN sector.heightM ELSE site.towerHeightM

\* sqrt(2 * (d1 + d2) / (wavelength * d1 * d2)) of path sample i of 4, in
\* units of 1e-5 per cm; samples i and 5 - i have the same value
FresnelRoot(sector, distM, i) ==
  ISqrt((166782 * sector.frequencyMhz) \div (distM * i * (5 - i)))

\* Fresnel parameter (thousandths) of path sample i of 4
FresnelV(site, targetLat, targetLng, txElev, rxElev, root, i) ==
  LET tHeight == getSyntheticElevation(5 * site.lat + (targetLat - site.lat) * i,
                                       5 * site.lng + (targetLng - site.lng) * i)
      losHeight == txElev + ((rxElev - txElev) * i) \div 5
  IN ((tHeight - losHeight) * root) \div 100

\* the terrain branch of calculateRSRP: diffraction loss of the worst sample
TerrainLoss(site, sector, targetLat, targetLng, distM) ==
  IF distM = 0 THEN 0
  ELSE LET h == SectorHeight(site, sector)
           txElev == getSyntheticElevation(5 * site.lat, 5 * site.lng) + h * 100
           rxElev == getSyntheticElevation(5 * targetLat, 5 * targetLng) + 150
           outer == FresnelRoot(sector, distM, 1)
           inner == FresnelRoot(sector, distM, 2)
           V(i, root) == FresnelV(site, targetLat, targetLng, txElev, rxElev, root, i)
           maxV == Max2(Max2(V(1, outer), V(2, inner)), Max2(V(3, inner), V(4, outer)))
       IN calculateDiffractionLoss(maxV)

\* metres east (dx) and north (dy) from a site to a target
Offset(site, targetLat, targetLng) ==
  [dx |-> EastM(targetLng - site.lng, targetLat + site.lat),
   dy |-> NorthM(targetLat - site.lat)]

\* distance in metres for an offset
DistOf(off) == ISqrt(off.dy * off.dy + off.dx * off.dx)

\* distance in metres between a site and a target
DistM(site, targetLat, targetLng) == DistOf(Offset(site, targetLat, targetLng))

\* bearing for an offset, centi-degrees in [0, 36000)
BearingOf(off) == (Atan2CD(off.dx, off.dy) + 36000) % 36000

\* bearing from the site to the target
BearingCD(site, targetLat, targetLng) == BearingOf(Offset(site, targetLat, targetLng))

\* Math.abs(((angleDeg - sector.azimuth + 180) % 360) - 180), centi-degrees,
\* for a bearing in centi-degrees and an azimuth in degrees
HorizAngleDiff(angleDeg, azimuth) ==
  Abs(JsMod(angleDeg - azimuth * 100 + 18000, 36000) - 18000)

\* the link budget of calculateRSRP once the target passed the range checks
LinkBudget(site, sector, antenna, targetLat, targetLng, off, distM, useTerrain) ==
  LET angleDeg == BearingOf(off)
      horizAngleDiff == HorizAngleDiff(angleDeg, sector.azimuth)
      horizLoss == PatternLoss(horizAngleDiff, antenna.horizontalBeamwidth, 3500, 1708)
      h == SectorHeight(site, sector)
      verticalAngleToTarget == Atan2CD(h * 10 - 15, distM * 10)
      effectiveTilt == (sector.mechanicalTilt + sector.electricalTilt) * 100
      vertAngleDiff == Abs(verticalAngleToTarget - effectiveTilt)
      vertLoss == PatternLoss(vertAngleDiff, antenna.verticalBeamwidth, 2500, 1444)
      gainPattern == Max2(-3500, -(horizLoss + vertLoss))
      pathLoss == calculateHata(distM, sector.frequencyMhz, h)
      extraLoss == IF useTerrain
                   THEN TerrainLoss(site, sector, targetLat, targetLng, distM)
                   ELSE 0
      clutterLoss == getUrbanClutterLoss(targetLat, targetLng)
      txPower == IF sector.txPowerDbm # 0 THEN sector.txPowerDbm ELSE 43
  IN txPower * 100 + antenna.gainDbi + gainPattern - pathLoss - clutterLoss - extraLoss

\* MAX_EFFECTIVE_RANGE_KM, in metres
MAX_EFFECTIVE_RANGE_M == 12000

\* the pre-filter threshold 0.015 deg^2, in U^2
QuickFilterSq == 1500000

\* calculateRSRP, centi-dBm
calculateRSRP(site, sector, targetLat, targetLng, useTerrain) ==
  IF getQuickDistSq(site.lat, site.lng, targetLat, targetLng) > QuickFilterSq
  THEN -15000
  ELSE LET antenna == FindAntenna(sector.antennaId)
           off == Offset(site, targetLat, targetLng)
           distM == DistOf(off)
       IN IF antenna = NoAntenna THEN -14000
          ELSE IF distM > MAX_EFFECTIVE_RANGE_M
               THEN -15000
               ELSE LinkBudget(site, sector, antenna, targetLat, targetLng,
                               off, distM, useTerrain)

\* the inner loop of getBestRSRPAtPoint over the sectors j..n of one site
RECURSIVE BestOverSectors(_, _, _, _, _, _)
BestOverSectors(site, j, lat, lng, useTerrain, bestRsrp) ==
  IF j > Len(site.sectors) THEN bestRsrp
  ELSE LET rsrp == calculateRSRP(site, site.sectors[j], lat, lng, useTerrain)
       IN IF rsrp > bestRsrp
          THEN BestOverSectors(site, j + 1, lat, lng, useTerrain, rsrp)
          ELSE BestOverSectors(site, j + 1, lat, lng, useTerrain, bestRsrp)

\* the outer loop of getBestRSRPAtPoint over the sites i..n
RECURSIVE BestOverSites(_, _, _, _, _, _)
BestOverSites(sites, i, lat, lng, useTerrain, bestRsrp) ==
  IF i > Len(sites) THEN bestRsrp
  ELSE IF getQuickDistSq(sites[i].lat, sites[i].lng, lat, lng) > QuickFilterSq
       THEN BestOverSites(sites, i + 1, lat, lng, useTerrain, bestRsrp)
       ELSE BestOverSites(sites, i + 1, lat, lng, useTerrain,
                          BestOverSectors(sites[i], 1, lat, lng, useTerrain, bestRsrp))

getBestRSRPAtPoint(sites, lat, lng, useTerrain) ==
  BestOverSites(sites, 1, lat, lng, useTerrain, -15000)

-----------------------------------------------------------------------------
(* Sector parameter optimizer *)

\* offsets (units) of the 12 probes at radius 0.005 degree:
\* 50*cos(30*i), 50*sin(30*i) for i = 0..11
ProbeOffsets ==
  << <<50, 0>>, <<43, 25>>, <<25, 43>>, <<0, 50>>, <<-25, 43>>, <<-43, 25>>,
     <<-50, 0>>, <<-43, -25>>, <<-25, -43>>, <<0, -50>>, <<25, -43>>, <<43, -25>> >>

searchSteps == 12

\* the initial value of a running minimum: above every level and distance
Infinity == 1000000000

\* allSites.filter(s => s.id !== site.id)
OtherSites(site, allSites) ==
  LET keep(x) == x.id # site.id
  IN SelectSeq(allSites, keep)

\* the probe loop of optimizeSiteParameters from step i on:
\* returns the bearing (degrees) of the weakest probe, first minimum wins
RECURSIVE WorstAzimuthFrom(_, _, _, _, _, _)
WorstAzimuthFrom(site, others, useTerrain, i, minRsrp, worstAzimuth) ==
  IF i >= searchSteps THEN worstAzimuth
  ELSE LET ang == (i * 360) \div searchSteps
           testLat == site.lat + ProbeOffsets[i + 1][1]
           testLng == site.lng + ProbeOffsets[i + 1][2]
           rsrp == getBestRSRPAtPoint(others, testLat, testLng, useTerrain)
       IN IF rsrp < minRsrp
          THEN WorstAzimuthFrom(site, others, useTerrain, i + 1, rsrp, ang)
          ELSE WorstAzimuthFrom(site, others, useTerrain, i + 1, minRsrp, worstAzimuth)

\* fault variant: the tilt is stepped up from the first sector's current one
TargetTiltRelative(site) == site.sectors[1].electricalTilt + 2

\* fault variant: the tower height is not taken into account
TargetTiltByDemandOnly(site) ==
  LET traffic == getSyntheticHumanTraffic(site.lat, site.lng)
  IN IF traffic > 7000 THEN 8 ELSE IF traffic > 4000 THEN 6 ELSE 4

\* the tilt rule: 4, 6 or 8 by demand, plus 2 above 40 m
TargetTilt(site) ==
  LET traffic == getSyntheticHumanTraffic(site.lat, site.lng)
      base == IF traffic > 7000 THEN 8 ELSE IF traffic > 4000 THEN 6 ELSE 4
  IN IF site.towerHeightM > 40 THEN base + 2 ELSE base

\* Math.round((worstAzimuth + i * (360 / n)) % 360) for sector index i (from 0)
SectorAzimuth(worstAzimuth, i, n) ==
  LET num == (worstAzimuth * n + 360 * i) % (360 * n)
  IN (2 * num + n) \div (2 * n)

optimizeSiteParameters(site, allSites, useTerrain) ==
  IF Len(site.sectors) = 0 THEN << >>
  ELSE LET worstAzimuth == WorstAzimuthFrom(site, OtherSites(site, allSites),
                                            useTerrain, 0, Infinity, 0)
           n == Len(site.sectors)
       IN [i \in 1..n |->
             [site.sectors[i] EXCEPT !.azimuth = SectorAzimuth(worstAzimuth, i - 1, n),
                                     !.electricalTilt = TargetTilt(site),
                                     !.mechanicalTilt = 0]]

-----------------------------------------------------------------------------
(* Site placement optimizer: one call of findOptimalNextSites *)

\* Grid resolution of the search.  The source scans steps = 45 (46 x 46
\* points); the model scans the same padded bounding box on a coarser grid.
steps == 5

\* the padding of the search box, 0.12 degree
SearchMargin == 1200

\* number of outer iterations
TargetCount == 20

\* s < 20
LoopContinues(k) == k < TargetCount

VARIABLES
  heap,             \* arrays by reference: heap.arg is the caller's `sites`,
                    \* heap.work the array allocated by the call
  input,            \* the caller's list as it was when the call was made
  currentSitesRef,  \* the array `currentSites` refers to
  suggestions,
  s,                \* outer loop counter
  bestCandidate,    \* best candidate of the latest grid scan
  pc,               \* "start", "loop" or "done"
  result            \* the returned list once pc = "done"

optVars == <<heap, input, currentSitesRef, suggestions, s, bestCandidate, pc, result>>

sites == heap.arg

currentSites == heap[currentSitesRef]

NoCandidate == [score |-> -1, none |-> TRUE]

RECURSIVE SeqMin(_, _, _)
SeqMin(q, i, m) == IF i > Len(q) THEN m ELSE SeqMin(q, i + 1, Min2(m, q[i]))

RECURSIVE SeqMax(_, _, _)
SeqMax(q, i, m) == IF i > Len(q) THEN m ELSE SeqMax(q, i + 1, Max2(m, q[i]))

\* Math.min(...lats) - 0.12 and the other three edges of the search box
SearchBox(list) ==
  LET lats == [i \in 1..Len(list) |-> list[i].lat]
      lngs == [i \in 1..Len(list) |-> list[i].lng]
  IN [minLat |-> SeqMin(lats, 1, Infinity) - SearchMargin,
      maxLat |-> SeqMax(lats, 1, -Infinity) + SearchMargin,
      minLng |-> SeqMin(lngs, 1, Infinity) - SearchMargin,
      maxLng |-> SeqMax(lngs, 1, -Infinity) + SearchMargin]

\* minLat + i * ((maxLat - minLat) / steps)
GridLat(box, i) == box.minLat + (i * (box.maxLat - box.minLat)) \div steps

GridLng(box, j) == box.minLng + (j * (box.maxLng - box.minLng)) \div steps

\* squared planar distance (U^2) to the nearest site of the list
RECURSIVE MinD2From(_, _, _, _, _)
MinD2From(list, i, lat, lng, minD2) ==
  IF i > Len(list) THEN minD2
  ELSE LET d2 == (lat - list[i].lat) * (lat - list[i].lat)
                   + (lng - list[i].lng) * (lng - list[i].lng)
       IN MinD2From(list, i + 1, lat, lng, IF d2 < minD2 THEN d2 ELSE minD2)

\* Math.sqrt(minD2) * 111000 in cm (1 U = 11.1 m in this measure)
DistMeters(minD2) ==
  IF minD2 <= 200000 THEN (ISqrt(minD2 * 10000) * 111) \div 10
  ELSE ISqrt(minD2) * 1110

\* distMeters >= 400 && distMeters <= 2000 ? 100 - |distMeters - 800| / 12 : 0
proximityBonus(distMeters) ==
  IF distMeters >= 40000 /\ distMeters <= 200000
  THEN 10000 - Abs(distMeters - 80000) \div 12
  ELSE 0

\* rsrp > -118 && rsrp < -100 ? 120 - |rsrp + 109| : 0
meshContinuity(rsrp) ==
  IF rsrp > -11800 /\ rsrp < -10000 THEN 12000 - Abs(rsrp + 10900) ELSE 0

coverageDeficit(rsrp) == Max2(0, -10000 - rsrp)

\* fault variant: the comparison of the hard constraint inverted
distPenaltyInverted(distMeters) == IF distMeters < 40000 THEN 1 ELSE 0

\* distMeters < 400 ? 0 : 1
distPenalty(distMeters) == IF distMeters < 40000 THEN 0 ELSE 1

\* distMeters > 3000 ? 0.2 : 1.0, in tenths
isolationPenalty(distMeters) == IF distMeters > 300000 THEN 2 ELSE 10

\* the score of one grid point, times 10000
Score(list, lat, lng) ==
  LET rsrp == getBestRSRPAtPoint(list, lat, lng, TRUE)
      traffic == getSyntheticHumanTraffic(lat, lng)
      distMeters == DistMeters(MinD2From(list, 1, lat, lng, Infinity))
  IN (coverageDeficit(rsrp) * 15 + meshContinuity(rsrp) * 20
        + proximityBonus(distMeters) * 18 + traffic * 4)
       * distPenalty(distMeters) * isolationPenalty(distMeters)

\* the candidate record built for grid point (i, j)
CandidateAt(list, box, i, j) ==
  LET lat == GridLat(box, i)
      lng == GridLng(box, j)
  IN [lat |-> lat, lng |-> lng, score |-> Score(list, lat, lng),
      traffic |-> getSyntheticHumanTraffic(lat, lng),
      meshContinuity |-> meshContinuity(getBestRSRPAtPoint(list, lat, lng, TRUE))]

\* fault variant: only the first grid point is ever taken
ReplacesFirstOnly(best, score) == best = NoCandidate

\* !bestCandidate || score > bestCandidate.score
Replaces(best, score) == best = NoCandidate \/ score > best.score

\* the grid scan from point k on (i = k \div (steps+1) outer, j inner):
\* a point replaces the best one only with a strictly greater score
RECURSIVE ScanFrom(_, _, _, _)
ScanFrom(list, box, k, best) ==
  IF k >= (steps + 1) * (steps + 1) THEN best
  ELSE LET i == k \div (steps + 1)
           j == k % (steps + 1)
           score == Score(list, GridLat(box, i), GridLng(box, j))
       IN IF Replaces(best, score)
          THEN ScanFrom(list, box, k + 1, CandidateAt(list, box, i, j))
          ELSE ScanFrom(list, box, k + 1, best)

\* if (bestCandidate)
Emits(best) == best # NoCandidate

\* the three default sectors of an ephemeral site
DefaultSector(k) ==
  [id |-> "s" \o ToString(k), antennaId |-> ANTENNA_LIBRARY[1].id,
   azimuth |-> 120 * (k - 1), mechanicalTilt |-> 0, electricalTilt |-> 6,
   txPowerDbm |-> 44, frequencyMhz |-> 1800, heightM |-> 30]

tempSite(best, count, iter) ==
  [id |-> "sug-" \o ToString(count),
   name |-> "Expansion Node " \o ToString(iter + 1),
   lat |-> best.lat, lng |-> best.lng, towerHeightM |-> 30,
   sectors |-> <<DefaultSector(1), DefaultSector(2), DefaultSector(3)>>]

Suggestion(best, optimizedSectors) ==
  [lat |-> best.lat, lng |-> best.lng,
   reason |-> "Proximity Expansion / Handover Stitching",
   sectors |-> optimizedSectors]

\* fault variant: the chosen site is not added to the working list
PushSiteDropped(h, ref, site) == h

\* fault variant: the chosen site takes the place of the working list
PushSiteOverwrites(h, ref, site) == [h EXCEPT ![ref] = <<site>>]

\* currentSites.push(site) on the array the reference names
PushSite(h, ref, site) == [h EXCEPT ![ref] = Append(@, site)]

\* fault variant: const currentSites = sites, an alias of the argument
AliasedRef == "arg"

\* [...sites]: the reference of the array that holds the copy
SpreadCopyRef == "work"

\* fault variant: a default location returned for an empty argument
FabricatedDefault ==
  <<[lat |-> 0, lng |-> 0, reason |-> "Proximity Expansion / Handover Stitching",
    sectors |-> << >>]>>

\* return [] for an empty argument
EmptyResult == << >>

\* fault variant: the loop counter is not advanced
IncrementSkipped(k) == k

\* fault variant: the counter is set back, so the loop condition never fails
IncrementReset(k) == 0

\* s++
Increment(k) == k + 1

\* lines 181-190: the empty-input return, else the set-up of the search
Enter ==
  /\ pc = "start"
  /\ IF Len(sites) = 0
     THEN /\ result' = EmptyResult
          /\ pc' = "done"
          /\ UNCHANGED <<heap, currentSitesRef, suggestions, s>>
     ELSE /\ heap' = [heap EXCEPT ![SpreadCopyRef] = heap.arg]
          /\ currentSitesRef' = SpreadCopyRef
          /\ suggestions' = << >>
          /\ s' = 0
          /\ pc' = "loop"
          /\ UNCHANGED result
  /\ UNCHANGED <<input, bestCandidate>>

\* fault variant: the grid is scored against the caller's sites only
ScoringListInput == sites

\* the list the grid is scored against: getBestRSRPAtPoint(currentSites, ...)
\* and currentSites.forEach(...) of the minimum-distance term
ScoringList == currentSites

\* one outer iteration: scan the grid, then emit and push the best candidate
Iterate ==
  /\ pc = "loop"
  /\ LoopContinues(s)
  /\ \E best \in {ScanFrom(ScoringList, SearchBox(sites), 0, NoCandidate)} :
       /\ bestCandidate' = best
       /\ IF Emits(best)
          THEN \E optimizedSectors \in
                    {optimizeSiteParameters(tempSite(best, Len(suggestions), s),
                                            currentSites, TRUE)} :
                 /\ suggestions' = Append(suggestions, Suggestion(best, optimizedSectors))
                 /\ heap' = PushSite(heap, currentSitesRef,
                                     [tempSite(best, Len(suggestions), s)
                                        EXCEPT !.sectors = optimizedSectors])
          ELSE UNCHANGED <<suggestions, heap>>
  /\ s' = Increment(s)
  /\ UNCHANGED <<input, currentSitesRef, pc, result>>

\* return suggestions
Return ==
  /\ pc = "loop"
  /\ ~LoopContinues(s)
  /\ result' = suggestions
  /\ pc' = "done"
  /\ UNCHANGED <<heap, input, currentSitesRef, suggestions, s, bestCandidate>>

-----------------------------------------------------------------------------
(* Serving-cell selector *)

\* the pre-filter threshold of getPhoneSignalProfile, 0.05 deg^2, in U^2
ProfileFilterSq == 5000000

\* the signals one site contributes, sectors j..n in order
RECURSIVE SiteSignals(_, _, _, _, _)
SiteSignals(site, j, lat, lng, useTerrain) ==
  IF j > Len(site.sectors) THEN << >>
  ELSE <<[siteId |-> site.id, siteName |-> site.name,
          sectorId |-> site.sectors[j].id,
          rsrp |-> calculateRSRP(site, site.sectors[j], lat, lng, useTerrain)]>>
         \o SiteSignals(site, j + 1, lat, lng, useTerrain)

\* allSignals before sorting: sites i..n in order, each passing the pre-filter
RECURSIVE CollectSignals(_, _, _, _, _)
CollectSignals(list, i, lat, lng, useTerrain) ==
  IF i > Len(list) THEN << >>
  ELSE (IF getQuickDistSq(list[i].lat, list[i].lng, lat, lng) < ProfileFilterSq
        THEN SiteSignals(list[i], 1, lat, lng, useTerrain)
        ELSE << >>)
         \o CollectSignals(list, i + 1, lat, lng, useTerrain)

\* fault variant: ascending comparator
CompareSignalsAscending(a, b) == a.rsrp - b.rsrp

\* comparator of the sort: (a, b) => b.rsrp - a.rsrp
CompareSignals(a, b) == b.rsrp - a.rsrp

\* stable insertion of x into a list sorted by the comparator
RECURSIVE InsertSorted(_, _)
InsertSorted(q, x) ==
  IF q = << >> THEN <<x>>
  ELSE IF CompareSignals(q[Len(q)], x) <= 0 THEN Append(q, x)
       ELSE Append(InsertSorted(SubSeq(q, 1, Len(q) - 1), x), q[Len(q)])

\* allSignals.sort(...)
RECURSIVE SortSignals(_)
SortSignals(q) ==
  IF q = << >> THEN << >>
  ELSE InsertSorted(SortSignals(SubSeq(q, 1, Len(q) - 1)), q[Len(q)])

\* allSignals.slice(1, 4).map(s => ({ siteName, rsrp }))
Neighbors(sorted) ==
  LET cut == SubSeq(sorted, 2, Min2(4, Len(sorted)))
  IN [k \in 1..Len(cut) |-> [siteName |-> cut[k].siteName, rsrp |-> cut[k].rsrp]]

\* fault variant: the proxy without its cap
SinrUncapped(servingRsrp) == servingRsrp + 10500

\* Math.min(30, serving.rsrp + 105), centi-dB
SinrProxy(servingRsrp) == Min2(3000, servingRsrp + 10500)

getPhoneSignalProfile(list, lat, lng, useTerrain) ==
  LET allSignals == SortSignals(CollectSignals(list, 1, lat, lng, useTerrain))
  IN IF Len(allSignals) > 0
     THEN [lat |-> lat, lng |-> lng, rsrp |-> allSignals[1].rsrp,
           sinr |-> SinrProxy(allSignals[1].rsrp),
           servingCellId |-> allSignals[1].sectorId,
           servingSiteName |-> allSignals[1].siteName,
           neighbors |-> Neighbors(allSignals)]
     ELSE [lat |-> lat, lng |-> lng, rsrp |-> -15000, sinr |-> -2000,
           servingCellId |-> "null", servingSiteName |-> "null",
           neighbors |-> << >>]

VARIABLES
  probe,        \* the target point of the calls
  useTerrain,   \* the terrain flag of the calls
  rsrpRet,      \* latest calculateRSRP call: site index, sector index, value
  bestRet,      \* latest getBestRSRPAtPoint value
  profileRet    \* latest getPhoneSignalProfile value

sigVars == <<probe, useTerrain, rsrpRet, bestRet, profileRet>>

VARIABLES
  points,       \* the array `points` of the latest sweep
  sweepRet,     \* latest sweep: entry point, step and returned coverage points
  sweepPrev,    \* the sweep before the latest one
  optRet        \* latest optimizeSiteParameters call: site index, how the call
                \* ended (it has no throw statement) and the value returned

VARIABLES
  appSites,         \* the state `sites` of the App component
  suggestedSites,   \* the state `suggestedSites`
  selectedSiteId,
  interactionMode,
  isSuggesting,
  timers,           \* pending setTimeout callbacks: the `sites` each one
                    \* captured and the list findOptimalNextSites returns for
                    \* them when the callback runs
  deployCall,       \* latest deploySite call: its arguments
  legacyRet,        \* latest call of the earlier findOptimalNextSites
  legacyPrev        \* the call before the latest one

appVars == <<appSites, suggestedSites, selectedSiteId, interactionMode,
             isSuggesting, timers, deployCall, legacyRet, legacyPrev>>

callVars == <<points, sweepRet, sweepPrev, optRet, appVars>>

vars == <<optVars, sigVars, callVars>>

NoResult == [none |-> TRUE]

CallCalculateRSRP ==
  /\ \E i \in 1..Len(sites) : \E j \in 1..Len(sites[i].sectors) :
       rsrpRet' = [site |-> i, sector |-> j,
                   value |-> calculateRSRP(sites[i], sites[i].sectors[j],
                                           probe.lat, probe.lng, useTerrain)]
  /\ UNCHANGED <<optVars, probe, useTerrain, bestRet, profileRet, callVars>>

CallGetBestRSRPAtPoint ==
  /\ bestRet' = [value |-> getBestRSRPAtPoint(sites, probe.lat, probe.lng, useTerrain)]
  /\ UNCHANGED <<optVars, probe, useTerrain, rsrpRet, profileRet, callVars>>

CallGetPhoneSignalProfile ==
  /\ profileRet' = getPhoneSignalProfile(sites, probe.lat, probe.lng, useTerrain)
  /\ UNCHANGED <<optVars, probe, useTerrain, rsrpRet, bestRet, callVars>>

-----------------------------------------------------------------------------
(* Coverage sweep: runSimulation and the simulation worker *)

\* rsrp > -120
VisibilityFloor == -12000

\* fault variant: every scanned point is kept
IsVisibleAlways(rsrp) == TRUE

IsVisible(rsrp) == rsrp > VisibilityFloor

\* fault variant: the array of an earlier sweep is reused
RetainedPoints == points

\* const points = []
NewPoints == << >>

\* padding of the box of runSimulation, 0.12 degree
SweepMargin == 1200

\* padding of the box of the worker, 0.1 degree
WorkerMargin == 1000

\* the worker skips sites farther than 10 km
WorkerRangeM == 10000

\* gain the worker assumes for an antenna that is not in its library, 17 dBi
WorkerDefaultGain == 1700

\* config.step || 0.0003
WorkerStep(step) == IF step # 0 THEN step ELSE 3

SweepBox(list, margin) ==
  LET lats == [i \in 1..Len(list) |-> list[i].lat]
      lngs == [i \in 1..Len(list) |-> list[i].lng]
  IN [minLat |-> SeqMin(lats, 1, Infinity) - margin,
      maxLat |-> SeqMax(lats, 1, -Infinity) + margin,
      minLng |-> SeqMin(lngs, 1, Infinity) - margin,
      maxLng |-> SeqMax(lngs, 1, -Infinity) + margin]

\* the inner loop of runSimulation: the points pushed on the row lat from lng on
RECURSIVE RunSimulationRow(_, _, _, _, _, _)
RunSimulationRow(list, box, step, terrain, lat, lng) ==
  IF lng > box.maxLng THEN << >>
  ELSE LET rsrp == getBestRSRPAtPoint(list, lat, lng, terrain)
       IN (IF IsVisible(rsrp)
           THEN <<[lat |-> lat, lng |-> lng, rsrp |-> rsrp]>>
           ELSE << >>)
          \o RunSimulationRow(list, box, step, terrain, lat, lng + step)

\* the outer loop of runSimulation from the row lat on; acc is `points`
RECURSIVE RunSimulationFrom(_, _, _, _, _, _)
RunSimulationFrom(list, box, step, terrain, lat, acc) ==
  IF lat > box.maxLat THEN acc
  ELSE RunSimulationFrom(list, box, step, terrain, lat + step,
         acc \o RunSimulationRow(list, box, step, terrain, lat, box.minLng))

\* runSimulation(sites, radiusKm, step, useTerrain); radiusKm is not read
runSimulation(list, radiusKm, step, terrain) ==
  IF Len(list) = 0 THEN NewPoints
  ELSE LET box == SweepBox(list, SweepMargin)
       IN RunSimulationFrom(list, box, step, terrain, box.minLat, NewPoints)

\* the level the worker computes for one sector: power plus gain minus Hata
WorkerRSRP(site, sector, distM, library) ==
  LET known == \E k \in 1..Len(library) : library[k].id = sector.antennaId
      ant == FindAntenna(sector.antennaId)
      txPower == IF sector.txPowerDbm # 0 THEN sector.txPowerDbm ELSE 43
  IN txPower * 100 + (IF known THEN ant.gainDbi ELSE WorkerDefaultGain)
       - calculateHata(distM, sector.frequencyMhz, SectorHeight(site, sector))

RECURSIVE WorkerBestOverSectors(_, _, _, _, _, _)
WorkerBestOverSectors(site, j, distM, library, lat, bestRsrp) ==
  IF j > Len(site.sectors) THEN bestRsrp
  ELSE LET rsrp == WorkerRSRP(site, site.sectors[j], distM, library)
       IN IF rsrp > bestRsrp
          THEN WorkerBestOverSectors(site, j + 1, distM, library, lat, rsrp)
          ELSE WorkerBestOverSectors(site, j + 1, distM, library, lat, bestRsrp)

\* the loop of the worker over the sites i..n for one grid point
RECURSIVE WorkerBest(_, _, _, _, _, _)
WorkerBest(list, i, library, lat, lng, bestRsrp) ==
  IF i > Len(list) THEN bestRsrp
  ELSE LET distM == DistM(list[i], lat, lng)
       IN IF distM > WorkerRangeM
          THEN WorkerBest(list, i + 1, library, lat, lng, bestRsrp)
          ELSE WorkerBest(list, i + 1, library, lat, lng,
                          WorkerBestOverSectors(list[i], 1, distM, library, lat, bestRsrp))

\* the inner loop of the worker: the points pushed on the row lat from lng on
RECURSIVE WorkerRow(_, _, _, _, _, _)
WorkerRow(list, library, box, step, lat, lng) ==
  IF lng > box.maxLng THEN << >>
  ELSE LET bestRsrp == WorkerBest(list, 1, library, lat, lng, -15000)
       IN (IF IsVisible(bestRsrp)
           THEN <<[lat |-> lat, lng |-> lng, rsrp |-> bestRsrp]>>
           ELSE << >>)
          \o WorkerRow(list, library, box, step, lat, lng + step)

\* the outer loop of the worker from the row lat on; acc is `points`
RECURSIVE WorkerFrom(_, _, _, _, _, _)
WorkerFrom(list, library, box, step, lat, acc) ==
  IF lat > box.maxLat THEN acc
  ELSE WorkerFrom(list, library, box, step, lat + step,
         acc \o WorkerRow(list, library, box, step, lat, box.minLng))

\* self.onmessage: the message posted back for { sites, antennaLibrary, config }
workerOnMessage(list, library, config) ==
  IF Len(list) = 0 THEN << >>
  ELSE LET box == SweepBox(list, WorkerMargin)
       IN WorkerFrom(list, library, box, WorkerStep(config.step),
                     box.minLat, NewPoints)

\* steps of the sweeps issued, in units (0.04, 0.06 and 0.05 degree)
RunSimulationSteps == {400, 600}

WorkerSteps == {500}

CallRunSimulation ==
  /\ \E step \in RunSimulationSteps :
       \E out \in {runSimulation(sites, 8, step, useTerrain)} :
         /\ points' = out
         /\ sweepRet' = [entry |-> "runSimulation", sites |-> sites, step |-> step,
                        terrain |-> useTerrain, value |-> out]
  /\ sweepPrev' = sweepRet
  /\ UNCHANGED <<optVars, sigVars, optRet, appVars>>

WorkerOnMessage ==
  /\ \E step \in WorkerSteps :
       \E out \in {workerOnMessage(sites, ANTENNA_LIBRARY, [step |-> step])} :
         /\ points' = out
         /\ sweepRet' = [entry |-> "worker", sites |-> sites, step |-> step,
                        terrain |-> useTerrain, value |-> out]
  /\ sweepPrev' = sweepRet
  /\ UNCHANGED <<optVars, sigVars, optRet, appVars>>

-----------------------------------------------------------------------------
(* Calls of optimizeSiteParameters on a site of the list *)

\* fault variant: const sectors = site.sectors, the caller's sector objects
SectorListAliased == "site"

\* site.sectors.map(s => ({ ...s })): the array that receives the writes
SectorListRef == "copy"

\* the caller's sites after the writes s.azimuth = ..., s.electricalTilt = ...
\* and s.mechanicalTilt = ... through the reference
WriteSectors(h, i, ref, out) ==
  IF ref = "site" /\ Len(out) > 0 THEN [h EXCEPT !.arg[i].sectors = out] ELSE h

CallOptimizeSiteParameters ==
  /\ \E i \in 1..Len(sites) :
       \E out \in {optimizeSiteParameters(sites[i], sites, useTerrain)} :
         /\ optRet' = [site |-> i, outcome |-> "returned", value |-> out]
         /\ heap' = WriteSectors(heap, i, SectorListRef, out)
  /\ UNCHANGED <<input, currentSitesRef, suggestions, s, bestCandidate, pc, result>>
  /\ UNCHANGED <<sigVars, points, sweepRet, sweepPrev, appVars>>

-----------------------------------------------------------------------------
(* Inputs *)

Sector(id, antennaId, azimuth, electricalTilt, heightM) ==
  [id |-> id, antennaId |-> antennaId, azimuth |-> azimuth, mechanicalTilt |-> 0,
   electricalTilt |-> electricalTilt, txPowerDbm |-> 43, frequencyMhz |-> 1800,
   heightM |-> heightM]

Site(id, name, lat, lng, towerHeightM, sectors) ==
  [id |-> id, name |-> name, lat |-> lat, lng |-> lng,
   towerHeightM |-> towerHeightM, sectors |-> sectors]

ThreeSectors(antennaId, heightM) ==
  <<Sector("s1", antennaId, 0, 4, heightM), Sector("s2", antennaId, 120, 4, heightM),
    Sector("s3", antennaId, 240, 4, heightM)>>

\* the default site with one sector pointing north
SiteA == Site("a", "Macro Hub", 0, 0, 35, <<Sector("s1", "h-amb4519", 0, 4, 35)>>)

\* 1.6 km north-east of SiteA, three sectors
SiteB == Site("b", "North East", 144, 144, 30, ThreeSectors("h-amb4519", 30))

\* 22 km north of SiteA, tall tower, sector height taken from the tower
SiteC == Site("c", "Far North", 2000, 0, 45, ThreeSectors("h-amb4519", 0))

\* a site whose antenna is not in the catalog
SiteX == Site("x", "Unknown Antenna", 0, 0, 30, <<Sector("s1", "not-in-catalog", 0, 4, 30)>>)

\* a small omni cell 3.3 km south-west of SiteA
SiteD == Site("d", "Small Cell", -200, -220, 20, <<Sector("s1", "jma-small", 90, 0, 20)>>)

\* 10 km north-east of SiteA; the grid of the pair has a point 310 m from SiteA
SiteE == Site("e", "Ridge", 650, 650, 40, ThreeSectors("h-amb4519", 40))

OptimizerInputs ==
  { << >>, <<SiteA>>, <<SiteA, SiteB>>, <<SiteA, SiteE>>, <<SiteA, SiteC>>,
    <<SiteD, SiteA, SiteB>>, <<SiteX, SiteD>> }

\* the default site as the application creates it, without sectors
SiteN == Site("n", "Macro Hub", 60, -90, 35, << >>)

\* a tall site with previous tilts that differ between its sectors
SiteT ==
  Site("t", "Tall", -150, 260, 45,
       <<[Sector("s1", "h-amb4519", 350, 2, 45) EXCEPT !.mechanicalTilt = 3],
         Sector("s2", "jma-small", 200, 9, 0)>>)

\* a tall and a low site, both where the synthetic demand is above 70
SiteH == Site("h", "Hot tall", 50, -100, 45, <<Sector("s1", "h-amb4519", 90, 0, 0)>>)

SiteL == Site("l", "Hot low", 300, 300, 30, <<Sector("s1", "jma-small", 0, 12, 30)>>)

\* number of sectors of the densest site of the inputs
DenseSectors == 61

\* a site carrying DenseSectors sectors, next to the tall site
SiteM ==
  Site("m", "Dense", 60, -90, 35,
       [i \in 1..DenseSectors |-> Sector(ToString(i), "not-in-catalog", 0, 4, 35)])

SweepInputs ==
  { << >>, <<SiteA>>, <<SiteA, SiteB>>, <<SiteN, SiteA>>, <<SiteX, SiteD>>,
    <<SiteT, SiteB>>, <<SiteM, SiteT>>, <<SiteH, SiteL>> }

\* the default site with its sector turned to 350 degrees
SiteW == Site("w", "North-west", 0, 0, 35, <<Sector("s1", "h-amb4519", 350, 4, 0)>>)

SignalInputs ==
  { << >>, <<SiteA>>, <<SiteB>>, <<SiteX>>, <<SiteA, SiteB>>, <<SiteB, SiteD, SiteA>>,
    <<SiteB, SiteC>>, <<SiteW>> }

\* probe points: on SiteA, 1 km north, 1.1 km south, 12.8 km north (inside
\* the pre-filter, beyond the range), 16.7 km north, and far from every site
ProbePoints ==
  { [lat |-> 0, lng |-> 0], [lat |-> 90, lng |-> 0], [lat |-> -100, lng |-> 0],
    [lat |-> 1150, lng |-> 0], [lat |-> 1500, lng |-> 0], [lat |-> 70, lng |-> 80],
    [lat |-> -4000, lng |-> 4000] }

-----------------------------------------------------------------------------
(* Specifications *)

OptIdle ==
  /\ currentSitesRef = "arg"
  /\ suggestions = << >>
  /\ s = 0
  /\ bestCandidate = NoCandidate
  /\ pc = "start"
  /\ result = << >>

SigIdle ==
  /\ probe = [lat |-> 0, lng |-> 0]
  /\ useTerrain = TRUE
  /\ rsrpRet = NoResult
  /\ bestRet = NoResult
  /\ profileRet = NoResult

AppIdle ==
  /\ appSites = << >>
  /\ suggestedSites = << >>
  /\ selectedSiteId = "null"
  /\ interactionMode = "none"
  /\ isSuggesting = FALSE
  /\ timers = << >>
  /\ deployCall = NoResult
  /\ legacyRet = NoResult
  /\ legacyPrev = NoResult

CallIdle ==
  /\ points = << >>
  /\ sweepRet = NoResult
  /\ sweepPrev = NoResult
  /\ optRet = NoResult
  /\ AppIdle

\* one call of findOptimalNextSites on each input list
Init ==
  /\ \E list \in OptimizerInputs :
       /\ heap = [arg |-> list, work |-> << >>]
       /\ input = list
  /\ OptIdle
  /\ SigIdle
  /\ CallIdle

Next ==
  \/ Enter /\ UNCHANGED <<sigVars, callVars>>
  \/ Iterate /\ UNCHANGED <<sigVars, callVars>>
  \/ Return /\ UNCHANGED <<sigVars, callVars>>

Spec == Init /\ [][Next]_vars

\* the condition under which the loop body runs once more
IterateEnabled == pc = "loop" /\ LoopContinues(s)

\* The call runs to completion: a statement that can execute does execute.
\* Weak fairness of the loop body is written out, with IterateEnabled as its
\* enabling condition and the increment of s as the mark of its steps.
SpecFair ==
  /\ Init
  /\ [][Next]_vars
  /\ WF_vars(Enter /\ UNCHANGED <<sigVars, callVars>>)
  /\ WF_vars(Return /\ UNCHANGED <<sigVars, callVars>>)
  /\ ([]<>(~IterateEnabled) \/ []<><<s' = Increment(s)>>_vars)

\* calls of the read-only queries on each input list, point and terrain flag
InitSignal ==
  /\ \E list \in SignalInputs :
       /\ heap = [arg |-> list, work |-> << >>]
       /\ input = list
  /\ OptIdle
  /\ probe \in ProbePoints
  /\ useTerrain \in BOOLEAN
  /\ rsrpRet = NoResult
  /\ bestRet = NoResult
  /\ profileRet = NoResult
  /\ CallIdle

NextSignal ==
  \/ CallCalculateRSRP
  \/ CallGetBestRSRPAtPoint
  \/ CallGetPhoneSignalProfile

SpecSignal == InitSignal /\ [][NextSignal]_vars

\* sweeps and sector optimizations on each input list and terrain flag
InitSweep ==
  /\ \E list \in SweepInputs :
       /\ heap = [arg |-> list, work |-> << >>]
       /\ input = list
  /\ OptIdle
  /\ probe = [lat |-> 0, lng |-> 0]
  /\ useTerrain \in BOOLEAN
  /\ rsrpRet = NoResult
  /\ bestRet = NoResult
  /\ profileRet = NoResult
  /\ CallIdle

NextSweep ==
  \/ CallRunSimulation
  \/ WorkerOnMessage
  \/ CallOptimizeSiteParameters

SpecSweep == InitSweep /\ [][NextSweep]_vars

-----------------------------------------------------------------------------
(* Properties of findOptimalNextSites *)

\* the threshold of the hard constraint, 400 m, in cm
MinSeparation == 40000

\* Math.sqrt(dLat^2 + dLng^2) * 111000 between two locations, in cm
Separation(a, b) ==
  DistMeters((a.lat - b.lat) * (a.lat - b.lat) + (a.lng - b.lng) * (a.lng - b.lng))

\* every two entries of the list, and every entry and every input site, are
\* at least the minimum separation apart
Separated(list) ==
  /\ \A i \in 1..Len(list) : \A j \in 1..Len(list) :
        i # j => Separation(list[i], list[j]) >= MinSeparation
  /\ \A i \in 1..Len(list) : \A k \in 1..Len(input) :
        Separation(list[i], input[k]) >= MinSeparation

\* C1: separation constraint.  For a non-empty input, the candidates emitted
\* so far, and the returned candidates once the call has returned, are
\* pairwise at least 400 m apart and at least 400 m from every input site
\* (planar measure of the code); hence no two share a location and none
\* coincides with an input site.
C1_Separation ==
  /\ Separated(suggestions)
  /\ pc = "done" => Separated(result)

C1_Witness == pc = "done" /\ Len(input) >= 2 /\ Len(result) >= 2

C3_EmptyInput ==
  /\ (pc = "start" /\ Len(input) = 0) => ENABLED Enter
  /\ (pc = "done" /\ Len(input) = 0) => (result = << >> /\ suggestions = << >>)

C3_Witness == pc = "done" /\ Len(input) = 0 /\ result = << >>

\* C4: the argument is never mutated.  The caller's array holds the same
\* sites in the same order with the same fields at every point of the call;
\* ephemeral sites are pushed to the array allocated by the call only, and
\* the returned entries hold a location, a reason and sectors, no site of
\* the working array.
C4_ArgumentUnchanged ==
  /\ heap.arg = input
  /\ (pc # "start" /\ Len(input) > 0)
       => /\ currentSitesRef # "arg"
          /\ Len(heap[currentSitesRef]) = Len(input) + Len(suggestions)
  /\ pc = "done"
       => \A i \in 1..Len(result) :
            DOMAIN result[i] = {"lat", "lng", "reason", "sectors"}

C4_Witness ==
  /\ pc = "done"
  /\ Len(input) >= 1
  /\ Len(heap.work) > Len(input)
  /\ heap.arg = input

\* C5: at most 20 candidates are returned, and at every point of the run the
\* number of candidates emitted so far is at most the number of outer
\* iterations started.
C5_AtMostTarget ==
  /\ Len(suggestions) <= s
  /\ Len(suggestions) <= TargetCount
  /\ pc = "done" => Len(result) <= TargetCount

C5_Witness == pc = "done" /\ Len(result) = TargetCount /\ s = TargetCount

-----------------------------------------------------------------------------
(* Properties of the signal queries *)

\* the site and the sector of the latest calculateRSRP call
CalledSite == sites[rsrpRet.site]

CalledSector == sites[rsrpRet.site].sectors[rsrpRet.sector]

\* the site passes the pre-filter of calculateRSRP at the probe point
PassesQuickFilter(site) ==
  getQuickDistSq(site.lat, site.lng, probe.lat, probe.lng) <= QuickFilterSq

\* calculateRSRP of every sector of every site within range of the probe
InRangeLevels ==
  {calculateRSRP(sites[i], sites[i].sectors[j], probe.lat, probe.lng, useTerrain) :
     <<i, j>> \in {p \in (1..Len(sites)) \X (1..3) :
                     /\ p[2] <= Len(sites[p[1]].sectors)
                     /\ PassesQuickFilter(sites[p[1]])}}

SetMax(S) == CHOOSE m \in S : \A x \in S : x <= m

\* C6: best-server consistency.  When some sector is within range of the
\* point, getBestRSRPAtPoint returns the maximum of calculateRSRP over the
\* sectors of the sites within range.
C6_BestServer ==
  (bestRet # NoResult /\ InRangeLevels # {}) => bestRet.value = SetMax(InRangeLevels)

\* C7: sentinel floor.  Every value calculateRSRP returns is at least -150 dBm
\* and, for a catalogued antenna, at most transmit power plus peak gain.
C7_SentinelFloor ==
  rsrpRet # NoResult =>
    LET antenna == FindAntenna(CalledSector.antennaId)
        txPower == IF CalledSector.txPowerDbm # 0 THEN CalledSector.txPowerDbm ELSE 43
    IN /\ rsrpRet.value >= -15000
       /\ antenna # NoAntenna => rsrpRet.value <= txPower * 100 + antenna.gainDbi

\* C8: order of the checks.  A target that fails the pre-filter or lies more
\* than 12 km from the site yields -150 dBm whatever the antenna id is; a
\* target within range whose antenna id is not in the catalog yields -140.
C8_CheckOrder ==
  rsrpRet # NoResult =>
    LET beyond == \/ ~PassesQuickFilter(CalledSite)
                  \/ DistM(CalledSite, probe.lat, probe.lng) > MAX_EFFECTIVE_RANGE_M
        unknown == FindAntenna(CalledSector.antennaId) = NoAntenna
    IN /\ beyond => rsrpRet.value = -15000
       /\ (~beyond /\ unknown) => rsrpRet.value = -14000

\* C9: no-service state.  When every site is rejected by the pre-filter that
\* calculateRSRP applies (the empty list included), the profile reports
\* rsrp -150, sinr -20, no serving cell, no serving site and no neighbor.
C9_NoService ==
  (profileRet # NoResult /\ \A i \in 1..Len(sites) : ~PassesQuickFilter(sites[i]))
    => /\ profileRet.rsrp = -15000
       /\ profileRet.sinr = -2000
       /\ profileRet.servingCellId = "null"
       /\ profileRet.servingSiteName = "null"
       /\ profileRet.neighbors = << >>

\* the sector signals getPhoneSignalProfile collects at the probe, unsorted
Collected == CollectSignals(sites, 1, probe.lat, probe.lng, useTerrain)

\* v is the m-th largest level of the collected signals
IsRanked(v, m) ==
  /\ Cardinality({i \in 1..Len(Collected) : Collected[i].rsrp > v}) < m
  /\ Cardinality({i \in 1..Len(Collected) : Collected[i].rsrp >= v}) >= m

\* C10: ranking.  With n >= 1 collected signals the serving cell is a sector
\* with the maximum level and the reported rsrp is that maximum; the neighbor
\* list has min(3, n - 1) entries, the k-th entry is a signal with the
\* (k + 1)-th largest level, so the entries are the next-highest signals in
\* non-increasing order and none exceeds the serving level.
C10_Ranking ==
  (profileRet # NoResult /\ Len(Collected) >= 1) =>
    LET n == Len(Collected)
        nb == profileRet.neighbors
    IN /\ IsRanked(profileRet.rsrp, 1)
       /\ \E i \in 1..n : /\ Collected[i].rsrp = profileRet.rsrp
                           /\ Collected[i].sectorId = profileRet.servingCellId
                           /\ Collected[i].siteName = profileRet.servingSiteName
       /\ Len(nb) = Min2(3, n - 1)
       /\ \A k \in 1..Len(nb) :
            /\ IsRanked(nb[k].rsrp, k + 1)
            /\ nb[k].rsrp <= profileRet.rsrp
            /\ k > 1 => nb[k].rsrp <= nb[k - 1].rsrp
            /\ \E i \in 1..n : /\ Collected[i].rsrp = nb[k].rsrp
                                /\ Collected[i].siteName = nb[k].siteName

C10_Witness ==
  /\ profileRet # NoResult
  /\ Len(Collected) >= 5
  /\ Len(profileRet.neighbors) = 3
  /\ profileRet.rsrp > profileRet.neighbors[1].rsrp
  /\ profileRet.neighbors[1].rsrp > profileRet.neighbors[3].rsrp
  /\ Collected[1].rsrp < profileRet.rsrp

-----------------------------------------------------------------------------
(* Further properties of findOptimalNextSites *)

\* the working list is the caller's sites followed by one ephemeral site per
\* suggestion, at its coordinates and with its sectors
WorkingListShape ==
  /\ Len(currentSites) = Len(input) + Len(suggestions)
  /\ SubSeq(currentSites, 1, Len(input)) = input
  /\ \A i \in 1..Len(suggestions) :
        /\ currentSites[Len(input) + i].lat = suggestions[i].lat
        /\ currentSites[Len(input) + i].lng = suggestions[i].lng
        /\ currentSites[Len(input) + i].sectors = suggestions[i].sectors

\* C11: working-list invariant.  At the start of every outer iteration the
\* working list is the caller's sites followed by exactly one ephemeral site
\* per candidate emitted so far, the i-th at the i-th candidate's coordinates
\* with its optimized sectors; the score of the point an iteration selects
\* is the score computed against that list (RSRP and minimum distance over
\* the input sites and every candidate accepted before).
C11_WorkingList ==
  [][/\ pc = "loop" => WorkingListShape
     /\ Len(suggestions') > Len(suggestions)
          => bestCandidate'.score
               = Score(currentSites, bestCandidate'.lat, bestCandidate'.lng)]_vars

C11_Witness ==
  /\ pc = "loop"
  /\ Len(suggestions) >= 3
  /\ WorkingListShape
  /\ bestCandidate.score = Score(SubSeq(currentSites, 1, Len(currentSites) - 1),
                                 bestCandidate.lat, bestCandidate.lng)
  /\ bestCandidate.score # Score(input, bestCandidate.lat, bestCandidate.lng)

-----------------------------------------------------------------------------
(* Properties of the coverage sweep *)

SweptList == sites

\* the padded bounding box the latest sweep scanned
SweptBox ==
  SweepBox(SweptList, IF sweepRet.entry = "worker" THEN WorkerMargin ELSE SweepMargin)

\* the grid points of the box at the step of the latest sweep
SweptGrid ==
  {[lat |-> SweptBox.minLat + a * sweepRet.step,
    lng |-> SweptBox.minLng + b * sweepRet.step] :
     a \in 0..((SweptBox.maxLat - SweptBox.minLat) \div sweepRet.step),
     b \in 0..((SweptBox.maxLng - SweptBox.minLng) \div sweepRet.step)}

\* the best level of the latest sweep's entry point at a grid point
SweptLevel(p) ==
  IF sweepRet.entry = "worker"
  THEN WorkerBest(SweptList, 1, ANTENNA_LIBRARY, p.lat, p.lng, -15000)
  ELSE getBestRSRPAtPoint(SweptList, p.lat, p.lng, useTerrain)

\* C12: visibility floor of the sweep.  The returned coverage points are
\* exactly the grid points of the padded bounding box whose best RSRP is
\* strictly greater than -120 dBm: every returned point has rsrp > -120, no
\* scanned grid point with best RSRP > -120 is omitted, no point is returned
\* twice, and each returned point's rsrp is the value computed at its own
\* (lat, lng).
C12_VisibilityFloor ==
  (sweepRet # NoResult /\ Len(SweptList) > 0) =>
    LET value == sweepRet.value
    IN /\ \A k \in 1..Len(value) :
            /\ value[k].rsrp > -12000
            /\ [lat |-> value[k].lat, lng |-> value[k].lng] \in SweptGrid
            /\ value[k].rsrp = SweptLevel(value[k])
       /\ \A p \in SweptGrid :
            SweptLevel(p) > -12000 =>
              \E k \in 1..Len(value) : value[k].lat = p.lat /\ value[k].lng = p.lng
       /\ \A k, l \in 1..Len(value) :
            (value[k].lat = value[l].lat /\ value[k].lng = value[l].lng) => k = l

\* a sweep that kept some grid points and dropped others
C12_Witness ==
  /\ sweepRet # NoResult
  /\ sweepRet.entry = "runSimulation"
  /\ Len(sweepRet.value) > 0
  /\ Len(sweepRet.value) < Cardinality(SweptGrid)
  /\ \E p \in SweptGrid : SweptLevel(p) <= -12000 /\ SweptLevel(p) > -15000

\* the latest two sweeps had the same entry point and the same arguments
SameSweepArguments ==
  /\ sweepPrev # NoResult
  /\ sweepRet # NoResult
  /\ sweepPrev.entry = sweepRet.entry
  /\ sweepPrev.sites = sweepRet.sites
  /\ sweepPrev.step = sweepRet.step
  /\ sweepPrev.terrain = sweepRet.terrain

-----------------------------------------------------------------------------
(* Properties of optimizeSiteParameters *)

\* the site the latest call optimized, as the caller passed it
OptimizedSite == input[optRet.site]

\* C13: optimizeSiteParameters called on a site with zero sectors signals a
\* distinct InvalidInput condition instead of returning an empty sector list.
C13_InvalidInput ==
  (optRet # NoResult /\ Len(OptimizedSite.sectors) = 0) =>
    /\ optRet.outcome = "InvalidInput"
    /\ ~(optRet.outcome = "returned" /\ optRet.value = << >>)

\* a call on a site without sectors has ended
C13_Witness ==
  /\ optRet # NoResult
  /\ Len(OptimizedSite.sectors) = 0

\* C14: frame of optimizeSiteParameters.  It returns a newly allocated
\* sector list and leaves the input site, each of the input site's sector
\* objects and the allSites list unchanged; the sector returned at index i
\* keeps the id, antennaId, txPowerDbm, frequencyMhz and heightM of the input
\* sector at index i, so only azimuth, electricalTilt and mechanicalTilt may
\* differ.
C14_Frame ==
  optRet # NoResult =>
    /\ sites = input
    /\ Len(optRet.value) = Len(OptimizedSite.sectors)
    /\ \A i \in 1..Len(optRet.value) :
         /\ optRet.value[i].id = OptimizedSite.sectors[i].id
         /\ optRet.value[i].antennaId = OptimizedSite.sectors[i].antennaId
         /\ optRet.value[i].txPowerDbm = OptimizedSite.sectors[i].txPowerDbm
         /\ optRet.value[i].frequencyMhz = OptimizedSite.sectors[i].frequencyMhz
         /\ optRet.value[i].heightM = OptimizedSite.sectors[i].heightM
         /\ DOMAIN optRet.value[i] = DOMAIN OptimizedSite.sectors[i]

\* a call returned sectors whose azimuth, electrical and mechanical tilt all
\* differ from the input sector's
C14_Witness ==
  /\ optRet # NoResult
  /\ \E i \in 1..Len(optRet.value) :
       /\ optRet.value[i].azimuth # OptimizedSite.sectors[i].azimuth
       /\ optRet.value[i].electricalTilt # OptimizedSite.sectors[i].electricalTilt
       /\ optRet.value[i].mechanicalTilt # OptimizedSite.sectors[i].mechanicalTilt

\* the best level of the other sites at probe k (bearing 30 * k degrees)
\* around the optimized site
ProbeLevels ==
  [k \in 0..(searchSteps - 1) |->
     getBestRSRPAtPoint(OtherSites(OptimizedSite, input),
                        OptimizedSite.lat + ProbeOffsets[k + 1][1],
                        OptimizedSite.lng + ProbeOffsets[k + 1][2], useTerrain)]

\* the smallest bearing whose probe level is minimal
WeakestBearing ==
  30 * (CHOOSE k \in DOMAIN ProbeLevels :
          /\ \A j \in DOMAIN ProbeLevels : ProbeLevels[k] <= ProbeLevels[j]
          /\ \A j \in 0..(k - 1) : ProbeLevels[j] > ProbeLevels[k])

\* a = round((w + i * 360 / n) mod 360), halves rounded up
IsRoundedBearing(a, w, i, n) ==
  LET num == (w * n + 360 * i) % (360 * n)
  IN 2 * n * a - n <= 2 * num /\ 2 * num < 2 * n * a + n

\* C15: azimuth redistribution.  For a site with n >= 1 sectors the result
\* has exactly n sectors and the sector at index i has azimuth
\* round((w + i * 360 / n) mod 360), a value in [0, 360), where w is the
\* bearing among the 12 probes 0, 30, ..., 330 degrees whose best RSRP over
\* all other sites is minimal, the smallest such bearing winning ties; with
\* no other site in range w = 0.
C15_Azimuths ==
  (optRet # NoResult /\ Len(OptimizedSite.sectors) >= 1) =>
    LET n == Len(OptimizedSite.sectors)
    IN /\ Len(optRet.value) = n
       /\ \A i \in 1..n :
            /\ IsRoundedBearing(optRet.value[i].azimuth, WeakestBearing, i - 1, n)
            /\ optRet.value[i].azimuth >= 0
            /\ optRet.value[i].azimuth < 360
       /\ (\A k \in DOMAIN ProbeLevels : ProbeLevels[k] = -15000) => WeakestBearing = 0

\* a call spread three sectors from a weakest bearing other than north
C15_Witness ==
  /\ optRet # NoResult
  /\ Len(optRet.value) = 3
  /\ WeakestBearing > 0
  /\ optRet.value[1].azimuth = WeakestBearing
  /\ optRet.value[2].azimuth = (WeakestBearing + 120) % 360

\* the synthetic demand (hundredths) at the optimized site
Demand == getSyntheticHumanTraffic(OptimizedSite.lat, OptimizedSite.lng)

\* the tilt the rule assigns at demand d to a tower of height h (m)
RuleTilt(d, h) ==
  (IF d <= 4000 THEN 4 ELSE IF d <= 7000 THEN 6 ELSE 8) + (IF h > 40 THEN 2 ELSE 0)

\* the optimized site with the tilts of all its sectors set to e and m
WithTilts(e, m) ==
  [OptimizedSite EXCEPT
     !.sectors = [i \in 1..Len(OptimizedSite.sectors) |->
                    [OptimizedSite.sectors[i] EXCEPT !.electricalTilt = e,
                                                     !.mechanicalTilt = m]]]

\* the optimized tower moved to the position of the x-th input site
MovedTo(x) == [OptimizedSite EXCEPT !.lat = input[x].lat, !.lng = input[x].lng]

\* C16: tilt rule.  Every returned sector has mechanicalTilt = 0 and the
\* same electricalTilt, which is 4, 6 or 8 according to the synthetic demand
\* at the site (<= 40, in (40, 70], > 70) plus 2 when the tower height
\* exceeds 40 m; so electricalTilt is in {4, 6, 8, 10}, is non-decreasing in
\* demand, and does not depend on the sectors' previous tilts.
C16_TiltRule ==
  (optRet # NoResult /\ Len(optRet.value) > 0) =>
    /\ \A i \in 1..Len(optRet.value) :
         /\ optRet.value[i].mechanicalTilt = 0
         /\ optRet.value[i].electricalTilt = RuleTilt(Demand, OptimizedSite.towerHeightM)
         /\ optRet.value[i].electricalTilt \in {4, 6, 8, 10}
    /\ \A x \in 1..Len(input) :
         LET there == optimizeSiteParameters(MovedTo(x), << >>, useTerrain)
             demandThere == getSyntheticHumanTraffic(input[x].lat, input[x].lng)
         IN /\ demandThere >= Demand
                => there[1].electricalTilt >= optRet.value[1].electricalTilt
            /\ demandThere <= Demand
                => there[1].electricalTilt <= optRet.value[1].electricalTilt
    /\ \A e \in {0, 7}, m \in {0, 5} :
         LET again == optimizeSiteParameters(WithTilts(e, m), input, useTerrain)
         IN \A i \in 1..Len(optRet.value) :
              /\ again[i].electricalTilt = optRet.value[i].electricalTilt
              /\ again[i].mechanicalTilt = optRet.value[i].mechanicalTilt

\* a call on a tower above 40 m at demand above 70 replaced differing tilts
C16_Witness ==
  /\ optRet # NoResult
  /\ Len(optRet.value) > 0
  /\ Demand > 7000
  /\ OptimizedSite.towerHeightM > 40
  /\ optRet.value[1].electricalTilt = 10
  /\ OptimizedSite.sectors[1].electricalTilt # 10

-----------------------------------------------------------------------------
(* Further properties of calculateRSRP *)

\* the bearing from the called site to the probe point, centi-degrees
CalledBearing == BearingCD(CalledSite, probe.lat, probe.lng)

\* min(|b - a|, 360 - |b - a|) for two angles in centi-degrees
CircularDistance(b, a) == Min2(Abs(b - a), 36000 - Abs(b - a))

\* the horizontal pattern loss of the called sector's antenna at bearing b
HorizLossAt(b) ==
  PatternLoss(HorizAngleDiff(b, CalledSector.azimuth),
              FindAntenna(CalledSector.antennaId).horizontalBeamwidth, 3500, 1708)

\* C17: azimuth wrap and left/right symmetry in calculateRSRP.  For every
\* target bearing b and sector azimuth a in [0, 360), the horizontal off-axis
\* angle used for the pattern loss equals the circular distance
\* min(|b - a|, 360 - |b - a|), a value in [0, 180]; consequently the
\* horizontal pattern loss is identical for targets at bearings
\* (a + d) mod 360 and (a - d) mod 360 for every d.
C17_WrapSymmetry ==
  (rsrpRet # NoResult /\ FindAntenna(CalledSector.antennaId) # NoAntenna) =>
    LET a == CalledSector.azimuth * 100
    IN /\ HorizAngleDiff(CalledBearing, CalledSector.azimuth)
            = CircularDistance(CalledBearing, a)
       /\ HorizAngleDiff(CalledBearing, CalledSector.azimuth) \in 0..18000
       /\ \A k \in 0..18 :
            HorizLossAt((a + k * 1000) % 36000) = HorizLossAt((a - k * 1000 + 36000) % 36000)

\* a sector at azimuth 350 was evaluated for a target due north in range
C17_Witness ==
  /\ rsrpRet # NoResult
  /\ CalledSector.azimuth = 350
  /\ CalledBearing = 0
  /\ rsrpRet.value > -14000

-----------------------------------------------------------------------------
(* Further properties of getPhoneSignalProfile *)

\* the profile has a serving cell
HasServing(profile) == profile.servingCellId # "null"

\* C19: SINR proxy.  Whenever a serving cell exists,
\* sinr = min(30, servingRsrp + 105); hence sinr <= 30 in every returned
\* profile and sinr is non-decreasing in the serving RSRP.
C19_SinrProxy ==
  profileRet # NoResult =>
    /\ HasServing(profileRet) =>
         /\ profileRet.sinr <= profileRet.rsrp + 10500
         /\ profileRet.sinr <= 3000
         /\ profileRet.sinr = 3000 \/ profileRet.sinr = profileRet.rsrp + 10500
    /\ profileRet.sinr <= 3000
    /\ \A q \in ProbePoints :
         LET other == getPhoneSignalProfile(sites, q.lat, q.lng, useTerrain)
         IN (HasServing(profileRet) /\ HasServing(other) /\ other.rsrp >= profileRet.rsrp)
              => other.sinr >= profileRet.sinr

\* a profile whose serving level is above -75 dBm, where the cap applies
C19_Witness ==
  /\ profileRet # NoResult
  /\ HasServing(profileRet)
  /\ profileRet.rsrp > -7500
  /\ profileRet.sinr = 3000

\* the near-field threshold of calculateHata, 10 m
NearFieldM == 10

\* the probe point q is within range of the called site
InRange(q) ==
  /\ getQuickDistSq(CalledSite.lat, CalledSite.lng, q.lat, q.lng) <= QuickFilterSq
  /\ DistM(CalledSite, q.lat, q.lng) <= MAX_EFFECTIVE_RANGE_M

\* C20: monotonic range decay.  For a fixed site, sector and bearing, if
\* d1 <= d2 are two target distances both beyond the near-field threshold
\* (10 m) and within range, then calculateRSRP at distance d2 is less than or
\* equal to calculateRSRP at distance d1.
C20_RangeDecay ==
  rsrpRet # NoResult =>
    \A q \in ProbePoints :
      (/\ BearingCD(CalledSite, q.lat, q.lng) = CalledBearing
       /\ InRange(q) /\ InRange(probe)
       /\ DistM(CalledSite, q.lat, q.lng) > NearFieldM
       /\ DistM(CalledSite, q.lat, q.lng) <= DistM(CalledSite, probe.lat, probe.lng))
        => rsrpRet.value
             <= calculateRSRP(CalledSite, CalledSector, q.lat, q.lng, useTerrain)

\* a call in range for which a nearer probe point lies on the same bearing
C20_Witness ==
  /\ rsrpRet # NoResult
  /\ InRange(probe)
  /\ rsrpRet.value > -14000
  /\ \E q \in ProbePoints :
       /\ BearingCD(CalledSite, q.lat, q.lng) = CalledBearing
       /\ DistM(CalledSite, q.lat, q.lng) > NearFieldM
       /\ DistM(CalledSite, q.lat, q.lng) < DistM(CalledSite, probe.lat, probe.lng)

-----------------------------------------------------------------------------
(* Behaviour of one run of findOptimalNextSites *)

\* number of grid points of one scan
GridSize == (steps + 1) * (steps + 1)

\* the score of every grid point, in scan order, against a working list
GridScores(list) ==
  [k \in 0..(GridSize - 1) |->
     Score(list, GridLat(SearchBox(input), k \div (steps + 1)),
                 GridLng(SearchBox(input), k % (steps + 1)))]

\* the candidate c is the grid point k
IsGridPoint(c, k) ==
  /\ c.lat = GridLat(SearchBox(input), k \div (steps + 1))
  /\ c.lng = GridLng(SearchBox(input), k % (steps + 1))

\* C21: greedy argmax with scan-order tie-break.  In every iteration in which
\* a candidate is emitted, the candidate is the grid point with the maximum
\* score over the whole (steps+1) x (steps+1) grid for the current working
\* list, and among grid points attaining that maximum it is the first one in
\* scan order (latitude index outer, longitude index inner).
C21_GreedyArgmax ==
  [][Len(suggestions') > Len(suggestions) =>
       \E scores \in {GridScores(currentSites)} :
         \E k \in DOMAIN scores :
           /\ IsGridPoint(bestCandidate', k)
           /\ bestCandidate'.score = scores[k]
           /\ \A m \in DOMAIN scores : scores[m] <= scores[k]
           /\ \A m \in 0..(k - 1) : scores[m] < scores[k]]_vars

\* a candidate other than the first grid point was emitted after the scan
\* had passed at least three improvements
C21_Witness ==
  /\ pc = "loop"
  /\ Len(suggestions) >= 2
  /\ ~IsGridPoint(bestCandidate, 0)
  /\ \E k \in 2..(GridSize - 2) : IsGridPoint(bestCandidate, k)

\* the handover distance of the near-neighbour rule, 3000 m in cm
HandoverDistance == 300000

\* the planar distance (cm) from a candidate to the nearest site of a list
NearestDistance(c, list) == DistMeters(MinD2From(list, 1, c.lat, c.lng, Infinity))

\* C22: near-neighbour rule.  Every suggested site stays within handover
\* distance of an existing node: at the moment a candidate is selected its
\* distance to the nearest site of the working list (caller sites plus
\* previously accepted candidates) is at most 3000 m in the code's planar
\* measure, so no isolated candidate is ever emitted.
C22_NearNeighbour ==
  [][Len(suggestions') > Len(suggestions) =>
       NearestDistance(bestCandidate', currentSites) <= HandoverDistance]_vars

\* a candidate was selected although every grid point was farther than the
\* handover distance from the working list, at the reduced score
C22_Witness ==
  /\ pc = "loop"
  /\ Len(suggestions) = 1
  /\ NearestDistance(bestCandidate, input) > HandoverDistance
  /\ bestCandidate.score > 0

\* C23: the sweep refines the best-server function.  For every coverage
\* point (lat, lng, rsrp) returned by a sweep over sites with terrain flag t,
\* rsrp equals getBestRSRPAtPoint(sites, lat, lng, t), the value obtained
\* from calculateRSRP with antenna pattern, clutter and (when t is set)
\* diffraction applied; this holds for the background-worker sweep as well
\* as for runSimulation.
C23_SweepRefinesBestServer ==
  sweepRet # NoResult =>
    \A k \in 1..Len(sweepRet.value) :
      sweepRet.value[k].rsrp
        = getBestRSRPAtPoint(sweepRet.sites, sweepRet.value[k].lat,
                             sweepRet.value[k].lng, sweepRet.terrain)

\* a worker sweep returned points
C23_Witness ==
  /\ sweepRet # NoResult
  /\ sweepRet.entry = "worker"
  /\ Len(sweepRet.value) >= 2

\* C24: termination.  findOptimalNextSites terminates for every finite site
\* list: it performs at most 20 outer iterations, each scanning the fixed
\* finite grid once and appending at most one site to the working list, and
\* then returns.
C24_Terminates ==
  /\ <>(pc = "done")
  /\ [](s <= TargetCount)
  /\ [][(pc = "loop" /\ pc' = "loop") =>
          /\ s' = s + 1
          /\ Len(currentSites') \in {Len(currentSites), Len(currentSites) + 1}]_vars
  /\ [][pc = "done" => pc' = "done"]_vars

\* the call returned after its twentieth iteration
C24_Witness ==
  /\ pc = "done"
  /\ s = TargetCount
  /\ Len(input) >= 2
  /\ Len(currentSites) = Len(input) + TargetCount

\* the best level of every grid point, in scan order, against a working list
GridLevels(list) ==
  [k \in 0..(GridSize - 1) |->
     getBestRSRPAtPoint(list, GridLat(SearchBox(input), k \div (steps + 1)),
                              GridLng(SearchBox(input), k % (steps + 1)), TRUE)]

\* C25: coverage only improves during one run.  For every grid point, the
\* best RSRP computed against the working list in iteration k+1 is greater
\* than or equal to the one computed in iteration k, so the point's
\* coverage-deficit term max(0, -100 - rsrp) never increases from one
\* iteration to the next.
C25_CoverageImproves ==
  [][(pc = "loop" /\ pc' = "loop") =>
       \E before \in {GridLevels(currentSites)} :
         \E after \in {GridLevels(currentSites')} :
           \A k \in DOMAIN before :
             /\ after[k] >= before[k]
             /\ coverageDeficit(after[k]) <= coverageDeficit(before[k])]_vars

\* the site accepted last raised the level of a grid point and lowered its
\* coverage deficit
C25_Witness ==
  /\ pc = "loop"
  /\ Len(suggestions) >= 2
  /\ \E k \in 0..(GridSize - 1) :
       LET p == [lat |-> GridLat(SearchBox(input), k \div (steps + 1)),
                 lng |-> GridLng(SearchBox(input), k % (steps + 1))]
           now == getBestRSRPAtPoint(currentSites, p.lat, p.lng, TRUE)
           was == getBestRSRPAtPoint(SubSeq(currentSites, 1, Len(currentSites) - 1),
                                     p.lat, p.lng, TRUE)
       IN now > was /\ coverageDeficit(now) < coverageDeficit(was)

\* C26: the serving-cell selector agrees with the grid sampler.  For every
\* site list, point and terrain flag, the rsrp field returned by
\* getPhoneSignalProfile equals getBestRSRPAtPoint for the same arguments.
C26_SelectorAgrees ==
  profileRet # NoResult =>
    profileRet.rsrp = getBestRSRPAtPoint(sites, probe.lat, probe.lng, useTerrain)

\* a profile with a serving cell and neighbours was returned
C26_Witness ==
  /\ profileRet # NoResult
  /\ HasServing(profileRet)
  /\ Len(profileRet.neighbors) >= 2
  /\ profileRet.rsrp > -12000

\* the optimized site carrying the sectors the latest call returned
Reoptimized == [OptimizedSite EXCEPT !.sectors = optRet.value]

\* the optimized site with the azimuth, tilts and power of its sectors changed
Repointed ==
  [OptimizedSite EXCEPT
     !.sectors = [i \in 1..Len(OptimizedSite.sectors) |->
                    [OptimizedSite.sectors[i] EXCEPT
                       !.azimuth = (OptimizedSite.sectors[i].azimuth + 77 * i) % 360,
                       !.electricalTilt = 1 + i,
                       !.mechanicalTilt = 2,
                       !.txPowerDbm = 40]]]

\* C27: optimizeSiteParameters is idempotent.  For every site S with at
\* least one sector and every list of other sites, replacing S's sectors by
\* optimizeSiteParameters(S, all, t) and optimizing again returns the same
\* sector list; the result depends only on S's position, tower height and
\* sector count and on the other sites, never on S's current azimuths, tilts
\* or power.
C27_Idempotent ==
  (optRet # NoResult /\ Len(OptimizedSite.sectors) >= 1) =>
    /\ optimizeSiteParameters(Reoptimized, [input EXCEPT ![optRet.site] = Reoptimized],
                              useTerrain) = optRet.value
    /\ optimizeSiteParameters(Reoptimized, input, useTerrain) = optRet.value
    /\ LET other == optimizeSiteParameters(Repointed,
                                           [input EXCEPT ![optRet.site] = Repointed],
                                           useTerrain)
       IN \A i \in 1..Len(optRet.value) :
            /\ other[i].azimuth = optRet.value[i].azimuth
            /\ other[i].electricalTilt = optRet.value[i].electricalTilt
            /\ other[i].mechanicalTilt = optRet.value[i].mechanicalTilt

\* a call changed the sectors of a site that has other sites around it
C27_Witness ==
  /\ optRet # NoResult
  /\ Len(input) >= 2
  /\ Len(optRet.value) >= 2
  /\ optRet.value # OptimizedSite.sectors
  /\ optRet.value[1].azimuth # 0

-----------------------------------------------------------------------------
(* The earlier findOptimalNextSites: calls with an empty site list, which
   return before the scan *)

\* the values Math.random() returns, in thousandths
RandomDraws == {0, 250, 999}

\* Array.from({ length: 10 }): the number of default targets
DefaultCount == 2

\* (Math.random() - 0.5) * 0.05 degrees, in U from 40.7128 / -74.0060
DefaultOffset(r) == (r - 500) \div 2

\* the list returned for an empty argument; draws are the values of the
\* successive Math.random() calls
EmptyInputDefault(draws) ==
  [i \in 1..DefaultCount |->
     [lat |-> DefaultOffset(draws[2 * i - 1]), lng |-> DefaultOffset(draws[2 * i]),
      reason |-> "Initial network deployment target."]]

CallEarlierFindOptimalNextSites ==
  /\ Len(sites) = 0
  /\ \E draws \in [1..(2 * DefaultCount) -> RandomDraws] :
       legacyRet' = [sites |-> sites, value |-> EmptyInputDefault(draws)]
  /\ legacyPrev' = legacyRet
  /\ UNCHANGED <<optVars, sigVars, points, sweepRet, sweepPrev, optRet>>
  /\ UNCHANGED <<appSites, suggestedSites, selectedSiteId, interactionMode,
                 isSuggesting, timers, deployCall>>

\* calls of the earlier findOptimalNextSites with an empty list
InitEarlier ==
  /\ heap = [arg |-> << >>, work |-> << >>]
  /\ input = << >>
  /\ OptIdle
  /\ SigIdle
  /\ CallIdle

NextEarlier == CallEarlierFindOptimalNextSites

SpecEarlier == InitEarlier /\ [][NextEarlier]_vars

\* C28: determinism.  Two calls of findOptimalNextSites with equal site lists
\* return equal candidate lists, the same coordinates and reasons in the same
\* order: no candidate's location depends on a random draw.
C28_Deterministic ==
  (/\ legacyPrev # NoResult
   /\ legacyRet # NoResult
   /\ legacyPrev.sites = legacyRet.sites)
    => legacyPrev.value = legacyRet.value

\* two calls with an empty list have returned, here with the same candidates
C28_Witness ==
  /\ legacyPrev # NoResult
  /\ legacyRet # NoResult
  /\ legacyPrev.sites = legacyRet.sites
  /\ Len(legacyRet.value) = DefaultCount
  /\ legacyPrev.value = legacyRet.value

-----------------------------------------------------------------------------
(* The App component: planning requests and deployments *)

\* one outer iteration applied to the working list and the suggestions
FindEmit(work, sugg, best, site, optimizedSectors) ==
  [work |-> Append(work, [site EXCEPT !.sectors = optimizedSectors]),
   sugg |-> Append(sugg, Suggestion(best, optimizedSectors))]

FindStep(work, sugg, k, best) ==
  IF Emits(best)
  THEN CHOOSE next \in
         { FindEmit(work, sugg, best, site, optimizedSectors) :
             <<site, optimizedSectors>> \in
               { <<t, optimizeSiteParameters(t, work, TRUE)>> :
                   t \in {tempSite(best, Len(sugg), k)} } } : TRUE
  ELSE [work |-> work, sugg |-> sugg]

\* the outer loop from iteration k on
RECURSIVE FindFrom(_, _, _, _)
FindFrom(list, work, sugg, k) ==
  IF ~LoopContinues(k) THEN sugg
  ELSE CHOOSE out \in
         { FindFrom(list, next.work, next.sugg, Increment(k)) :
             next \in { FindStep(work, sugg, k, best) :
                          best \in {ScanFrom(work, SearchBox(list), 0, NoCandidate)} } } :
         TRUE

\* the value one call returns
findOptimalNextSites(list) ==
  IF Len(list) = 0 THEN EmptyResult ELSE FindFrom(list, list, << >>, 0)

DEFAULT_SITE ==
  [name |-> "Macro Hub", lat |-> 0, lng |-> 0, towerHeightM |-> 35,
   towerType |-> "LATTICE", sectors |-> << >>, status |-> "planned"]

\* deploySite(lat, lng) without a config
NoConfig == [none |-> TRUE]

\* the values crypto.randomUUID() returns
UuidPool == {"uuid-1", "uuid-2"}

\* the identifiers in use
UsedIds == { appSites[i].id : i \in 1..Len(appSites) }

\* deployments are modelled up to this many sites
MaxSites == 2

\* planning is requested for networks of at most this many sites
MaxPlannedSites == 1

\* pending setTimeout callbacks at a time
MaxTimers == 1

\* 0.0001 degree, in U
LatTolerance == 1

\* holes.map((h, i) => ({ ... }))
SuggestedFrom(holes) ==
  [i \in 1..Len(holes) |->
     [lat |-> holes[i].lat, lng |-> holes[i].lng, reason |-> holes[i].reason,
      name |-> "Proposed Node " \o ToString(i), towerHeightM |-> 35,
      towerType |-> "LATTICE", sectors |-> << >>]]

\* the object newSite
NewSite(lat, lng, config, id) ==
  [id |-> id,
   name |-> IF config # NoConfig THEN config.name
            ELSE "Site " \o ToString(Len(appSites) + 1),
   lat |-> lat, lng |-> lng,
   towerHeightM |-> IF config # NoConfig THEN config.towerHeightM
                    ELSE DEFAULT_SITE.towerHeightM,
   towerType |-> IF config # NoConfig THEN config.towerType
                 ELSE DEFAULT_SITE.towerType,
   status |-> DEFAULT_SITE.status,
   sectors |-> IF config # NoConfig
               THEN [k \in 1..Len(config.sectors) |->
                       [config.sectors[k] EXCEPT !.id = id \o "-" \o ToString(k)]]
               ELSE << >>]

\* prev.filter(s => Math.abs(s.lat - lat) > 0.0001)
RemainingSuggestions(prev, lat) ==
  SelectSeq(prev, LAMBDA sg : Abs(sg.lat - lat) > LatTolerance)

deploySite(lat, lng, config) ==
  /\ Len(appSites) < MaxSites
  /\ \E id \in UuidPool \ UsedIds :
       /\ appSites' = Append(appSites, NewSite(lat, lng, config, id))
       /\ selectedSiteId' = id
  /\ interactionMode' = "none"
  /\ suggestedSites' = RemainingSuggestions(suggestedSites, lat)
  /\ deployCall' = [lat |-> lat, lng |-> lng, config |-> config]
  /\ UNCHANGED <<isSuggesting, timers, legacyRet, legacyPrev>>
  /\ UNCHANGED <<optVars, sigVars, points, sweepRet, sweepPrev, optRet>>

\* the places of the map clicks: in the latitude of a grid row, east of the
\* site, and south-west of it between two rows
ClickPoints == { [lat |-> 240, lng |-> 17], [lat |-> -500, lng |-> -300] }

\* the placement button
TogglePlacement ==
  /\ interactionMode' = IF interactionMode = "placement" THEN "none" ELSE "placement"
  /\ UNCHANGED <<appSites, suggestedSites, selectedSiteId, isSuggesting, timers,
                 deployCall, legacyRet, legacyPrev>>
  /\ UNCHANGED <<optVars, sigVars, points, sweepRet, sweepPrev, optRet>>

\* onMapClick in placement mode
MapClick ==
  /\ interactionMode = "placement"
  /\ \E p \in ClickPoints : deploySite(p.lat, p.lng, NoConfig)

\* onClick of a suggestion marker
SuggestionClick ==
  \E idx \in 1..Len(suggestedSites) :
    deploySite(suggestedSites[idx].lat, suggestedSites[idx].lng, suggestedSites[idx])

handleAISuggestSite ==
  /\ Len(appSites) # 0
  /\ IF Len(suggestedSites) > 0
     THEN /\ suggestedSites' = << >>
          /\ UNCHANGED <<isSuggesting, timers>>
     ELSE /\ Len(timers) < MaxTimers
          /\ Len(appSites) <= MaxPlannedSites
          /\ isSuggesting' = TRUE
          /\ timers' = Append(timers, [sites |-> appSites,
                                       holes |-> findOptimalNextSites(appSites)])
          /\ UNCHANGED suggestedSites
  /\ UNCHANGED <<appSites, selectedSiteId, interactionMode, deployCall,
                 legacyRet, legacyPrev>>
  /\ UNCHANGED <<optVars, sigVars, points, sweepRet, sweepPrev, optRet>>

\* the callback handleAISuggestSite passes to setTimeout
SuggestTimeout ==
  /\ Len(timers) > 0
  /\ suggestedSites' = SuggestedFrom(timers[1].holes)
  /\ isSuggesting' = FALSE
  /\ timers' = Tail(timers)
  /\ UNCHANGED <<appSites, selectedSiteId, interactionMode, deployCall,
                 legacyRet, legacyPrev>>
  /\ UNCHANGED <<optVars, sigVars, points, sweepRet, sweepPrev, optRet>>

\* the projects the App is opened with
AppInputs == { <<SiteA>> }

InitApp ==
  /\ heap = [arg |-> << >>, work |-> << >>]
  /\ input = << >>
  /\ OptIdle
  /\ SigIdle
  /\ points = << >>
  /\ sweepRet = NoResult
  /\ sweepPrev = NoResult
  /\ optRet = NoResult
  /\ appSites \in AppInputs
  /\ suggestedSites = << >>
  /\ selectedSiteId = "null"
  /\ interactionMode = "none"
  /\ isSuggesting = FALSE
  /\ timers = << >>
  /\ deployCall = NoResult
  /\ legacyRet = NoResult
  /\ legacyPrev = NoResult

NextApp ==
  \/ TogglePlacement
  \/ MapClick
  \/ SuggestionClick
  \/ handleAISuggestSite
  \/ SuggestTimeout

SpecApp == InitApp /\ [][NextApp]_vars

\* a step of deploySite
Deploys == Len(appSites') = Len(appSites) + 1

\* the suggestion is at the coordinates
IsAt(sg, lat, lng) == sg.lat = lat /\ sg.lng = lng

\* C29: accepting a suggestion removes exactly that suggestion.  After
\* deploySite(lat, lng, config), for an entry of suggestedSites or for a manual
\* placement, the site list has grown by exactly one site at (lat, lng), no
\* suggestion at (lat, lng) is left in suggestedSites, and every suggestion at
\* a different location is still in suggestedSites.
C29_RemovesExactlyAccepted ==
  [][Deploys =>
       /\ SubSeq(appSites', 1, Len(appSites)) = appSites
       /\ IsAt(appSites'[Len(appSites')], deployCall'.lat, deployCall'.lng)
       /\ \A m \in 1..Len(suggestedSites') :
            ~IsAt(suggestedSites'[m], deployCall'.lat, deployCall'.lng)
       /\ \A k \in 1..Len(suggestedSites) :
            ~IsAt(suggestedSites[k], deployCall'.lat, deployCall'.lng)
              => \E m \in 1..Len(suggestedSites') :
                   suggestedSites'[m] = suggestedSites[k]]_vars

\* a suggestion has been accepted while others were shown: the new site is at
\* its coordinates and suggestions remain
C29_Witness ==
  /\ deployCall # NoResult
  /\ deployCall.config # NoConfig
  /\ Len(appSites) = 2
  /\ IsAt(appSites[2], deployCall.lat, deployCall.lng)
  /\ Len(suggestedSites) > 0

=============================================================================
